---- MODULE Spec2Model ----
(***************************************************************************)
(* Model of task_cli.py, a task tracker that keeps its tasks in the JSON   *)
(* document tasks.json.  Every command is one short-lived process: it      *)
(* loads the whole document, changes the in-memory list, and writes the    *)
(* whole document back.                                                    *)
(*                                                                         *)
(* Strings are sequences of one-character strings, so that strip(), join() *)
(* lower() and int() are computed as Python computes them.  Timestamps are *)
(* whole seconds: now_iso() drops the sub-second part of the wall clock.   *)
(*                                                                         *)
(* Spec is a session of commands from the empty store; SpecAny and SpecDoc *)
(* run one command on any stored collection and on any document on disk;   *)
(* SpecRoundTrip saves what was loaded; SpecConc runs two invocations with *)
(* their loads and saves interleaved.                                      *)
(***************************************************************************)
EXTENDS Integers, Sequences, FiniteSets, TLC

(* ---------------------------- bounds ----------------------------------- *)

\* largest id an add may assign in the model
MaxId == 3

\* largest number of tasks a session of commands grows the collection to
MaxLen == 2

\* last instant of the wall clock, in sub-second ticks
MaxClock == 2

\* wall-clock ticks per second (the part replace(microsecond=0) drops)
SubSec == 2

(* ---------------------------- strings ---------------------------------- *)

TODO == <<"t", "o", "d", "o">>

IN_PROGRESS == <<"i", "n", "-", "p", "r", "o", "g", "r", "e", "s", "s">>

DONE == <<"d", "o", "n", "e">>

VALID_STATUSES == {TODO, IN_PROGRESS, DONE}

\* str.isspace() of one character
IsSpace(c) == c \in {" ", "\t", "\n"}

RECURSIVE LStrip(_)
LStrip(s) == IF s # <<>> /\ IsSpace(Head(s)) THEN LStrip(Tail(s)) ELSE s

RECURSIVE RStrip(_)
RStrip(s) ==
    IF s # <<>> /\ IsSpace(s[Len(s)]) THEN RStrip(SubSeq(s, 1, Len(s) - 1)) ELSE s

\* strip() that forgets the trailing whitespace
StripLeftOnly(s) == LStrip(s)

\* str.strip()
Strip(s) == RStrip(LStrip(s))

\* str.lower() of one character, for the letters the model uses
LowerChar(c) ==
    CASE c = "D" -> "d"
      [] c = "O" -> "o"
      [] c = "N" -> "n"
      [] c = "E" -> "e"
      [] c = "T" -> "t"
      [] OTHER -> c

\* str.lower()
Lower(s) == [i \in 1..Len(s) |-> LowerChar(s[i])]

\* " ".join(args)
RECURSIVE Join(_)
Join(args) ==
    IF args = <<>> THEN <<>>
    ELSE IF Len(args) = 1 THEN args[1]
    ELSE args[1] \o <<" ">> \o Join(Tail(args))

Digits == {"0", "1", "2", "3", "4", "5", "6", "7", "8", "9"}

DigitVal(c) ==
    CASE c = "0" -> 0 [] c = "1" -> 1 [] c = "2" -> 2 [] c = "3" -> 3
      [] c = "4" -> 4 [] c = "5" -> 5 [] c = "6" -> 6 [] c = "7" -> 7
      [] c = "8" -> 8 [] c = "9" -> 9

RECURSIVE DecVal(_)
DecVal(s) ==
    IF s = <<>> THEN 0
    ELSE 10 * DecVal(SubSeq(s, 1, Len(s) - 1)) + DigitVal(s[Len(s)])

IsDecimal(s) == s # <<>> /\ \A i \in 1..Len(s) : s[i] \in Digits

\* int(s): surrounding whitespace is ignored, one sign is allowed
IntOk(s) ==
    LET t == Strip(s) IN
    \/ IsDecimal(t)
    \/ t # <<>> /\ Head(t) \in {"-", "+"} /\ IsDecimal(Tail(t))

IntVal(s) ==
    LET t == Strip(s) IN
    IF Head(t) = "-" THEN 0 - DecVal(Tail(t))
    ELSE IF Head(t) = "+" THEN DecVal(Tail(t))
    ELSE DecVal(t)

(* ---------------------------- inputs ----------------------------------- *)

\* the decimal token of a small non-negative integer
DigitOf(n) ==
    CASE n = 0 -> "0" [] n = 1 -> "1" [] n = 2 -> "2" [] n = 3 -> "3"
      [] n = 4 -> "4" [] n = 5 -> "5" [] n = 6 -> "6" [] n = 7 -> "7"
      [] n = 8 -> "8" [] n = 9 -> "9"

\* <id> tokens a user may type: every id of the model, and tokens parse_id rejects
IdTokens ==
    {<<DigitOf(n)>> : n \in 0..MaxId} \cup {<<"-", "1">>, <<"x">>}

\* <description...> argument lists: missing, blank, padded, several words
DescArgs ==
    { <<>>,
      << <<" ">> >>,
      << <<" ", "a", " ">> >>,
      << <<"b">>, <<"c">> >> }

\* argument lists of update: <id> <description...>, or too few arguments
UpdateArgs == { <<tok>> \o d : tok \in IdTokens, d \in DescArgs } \cup { <<>> }

\* argument lists of delete and the marks: <id>, or another number of arguments
IdArgs == { <<tok>> : tok \in IdTokens } \cup { <<>>, << <<"1">>, <<"2">> >> }

\* argument lists of list: none, the three statuses, other spellings, too many
ListArgs ==
    { <<>>, <<TODO>>, <<IN_PROGRESS>>, <<DONE>>,
      << <<" ", "D", "o", "n", "e">> >>,
      << <<"x">> >>,
      <<TODO, DONE>> }

\* the inputs of a session of commands: valid ones and one of each kind of error
SomeIdTokens == {<<DigitOf(n)>> : n \in 1..MaxId} \cup {<<"x">>}

SomeAddArgs == { << <<" ">> >>, << <<" ", "a", " ">> >> }

SomeUpdateArgs ==
    { <<tok>> \o d : tok \in SomeIdTokens, d \in { << <<" ">> >>, << <<"b">>, <<"c">> >> } }

SomeIdArgs == { <<tok>> : tok \in SomeIdTokens } \cup { <<>> }

SomeListArgs == { <<>>, <<IN_PROGRESS>>, << <<"x">> >> }

(* ---------------------------- state ------------------------------------ *)

VARIABLES
    db,        \* the document tasks.json: [kind, items]
    clock,     \* the wall clock as last read, in ticks; it does not run backwards
    out,       \* what the last command printed and its exit status
    assigned,  \* history: the ids that successful adds have reported
    deleted,   \* history: the ids that successful deletes have removed
    inv        \* invocations that run at the same time: what each has in memory

vars == <<db, clock, out, assigned, deleted, inv>>

\* the two invocations that may run at the same time
Procs == {"A", "B"}

\* an invocation that has not started
Idle == [pc |-> "idle", cmd |-> "none", id |-> 0, res |-> "ok", pending |-> <<>>]

\* a document holding the JSON list items
ListDoc(items) == [kind |-> "list", items |-> items]

\* no document on disk
NoDoc == [kind |-> "absent", items |-> <<>>]

\* isinstance(t, dict)
IsDict(t) == "nondict" \notin DOMAIN t

\* isinstance(t.get("id"), int)
HasId(t) == "id" \in DOMAIN t

\* now_iso() that keeps the sub-second part
now_iso_unrounded(now) == now

\* datetime.now().replace(microsecond=0).isoformat(), as whole seconds
now_iso(now) == now \div SubSec

\* the instants at which the next command may read the clock
Times == clock..MaxClock

(* ---------------------------- store ------------------------------------ *)

\* ensure_db_exists() that also replaces a document it cannot use
ensure_db_exists_resets(d) == IF d.kind # "list" THEN ListDoc(<<>>) ELSE d

\* the document after ensure_db_exists()
ensure_db_exists(d) == IF d.kind = "absent" THEN ListDoc(<<>>) ELSE d

\* a filter that also drops the dicts that have no id
RECURSIVE OnlyDictsWithId(_)
OnlyDictsWithId(data) ==
    IF data = <<>> THEN <<>>
    ELSE IF IsDict(Head(data)) /\ HasId(Head(data))
         THEN <<Head(data)>> \o OnlyDictsWithId(Tail(data))
    ELSE OnlyDictsWithId(Tail(data))

\* [t for t in data if isinstance(t, dict)]
RECURSIVE OnlyDicts(_)
OnlyDicts(data) ==
    IF data = <<>> THEN <<>>
    ELSE IF IsDict(Head(data)) THEN <<Head(data)>> \o OnlyDicts(Tail(data))
    ELSE OnlyDicts(Tail(data))

\* load_tasks() on the document d: the task list, or a fatal error
load_tasks(d) ==
    LET e == ensure_db_exists(d) IN
    IF e.kind = "list"
    THEN [ok |-> TRUE, tasks |-> OnlyDicts(e.items)]
    ELSE [ok |-> FALSE, tasks |-> <<>>]

\* save_tasks() that adds the list to the document instead of replacing it
save_tasks_appending(tasks) ==
    ListDoc((IF db.kind = "list" THEN db.items ELSE <<>>) \o tasks)

\* save_tasks() that writes the list back to front
save_tasks_reversed(tasks) ==
    ListDoc([i \in 1..Len(tasks) |-> tasks[Len(tasks) + 1 - i]])

\* the document after save_tasks(tasks)
save_tasks(tasks) == ListDoc(tasks)

RECURSIVE NextIdLoop(_, _)
NextIdLoop(tasks, max_id) ==
    IF tasks = <<>> THEN max_id
    ELSE LET t == Head(tasks) IN
         NextIdLoop(Tail(tasks),
                    IF HasId(t) /\ t.id > max_id THEN t.id ELSE max_id)

\* next_id() that counts the tasks instead of taking the largest id
next_id_by_count(tasks) == Len(tasks) + 1

next_id(tasks) == NextIdLoop(tasks, 0) + 1

\* parse_id() that takes a negative number for its absolute value
parse_id_abs(s) ==
    IF IntOk(s) /\ IntVal(s) > 0 THEN IntVal(s)
    ELSE IF IntOk(s) /\ IntVal(s) < 0 THEN 0 - IntVal(s)
    ELSE 0

\* parse_id(s): the id, or 0 where parse_id exits with an error
parse_id(s) == IF IntOk(s) /\ IntVal(s) > 0 THEN IntVal(s) ELSE 0

RECURSIVE FindFrom(_, _, _)
FindFrom(tasks, task_id, i) ==
    IF i > Len(tasks) THEN 0
    ELSE IF HasId(tasks[i]) /\ tasks[i].id = task_id THEN i
    ELSE FindFrom(tasks, task_id, i + 1)

\* find_task() that takes the id for the position in the list
find_task_by_position(tasks, task_id) == IF task_id <= Len(tasks) THEN task_id ELSE 0

\* find_task(tasks, task_id): the position of the first match, 0 for None
find_task(tasks, task_id) == FindFrom(tasks, task_id, 1)

(* ---------------------------- output ----------------------------------- *)

\* what a command reports: its outcome, the id of the task it changed (0 when
\* it failed or changed none), the tasks it listed, and its exit status
Out(cmd, res, id, listing) ==
    [cmd |-> cmd, res |-> res, id |-> id, listing |-> listing,
     exit |-> IF res = "ok" THEN 0 ELSE 1]

\* a command that exits before it loads the store
ExitEarly(cmd, res) ==
    /\ out' = Out(cmd, res, 0, <<>>)
    /\ UNCHANGED <<db, clock, assigned, deleted>>

\* a failing command that writes back what it loaded before it exits
ExitLoadedSaving(cmd, res) ==
    /\ out' = Out(cmd, res, 0, <<>>)
    /\ db' = save_tasks(load_tasks(db).tasks)
    /\ UNCHANGED <<clock, assigned, deleted>>

\* a command that exits after load_tasks() and before save_tasks()
ExitLoaded(cmd, res) ==
    /\ out' = Out(cmd, res, 0, <<>>)
    /\ db' = ensure_db_exists(db)
    /\ UNCHANGED <<clock, assigned, deleted>>

(* ---------------------------- commands --------------------------------- *)

\* task[k] = v on a dict
SetKey(t, k, v) == [x \in DOMAIN t \cup {k} |-> IF x = k THEN v ELSE t[x]]

\* a record whose id counts from zero
NewTaskZeroBased(tid, description, ts) ==
    [id |-> tid - 1, description |-> description, status |-> TODO,
     createdAt |-> ts, updatedAt |-> ts]

\* the record cmd_add builds
NewTask(tid, description, ts) ==
    [id |-> tid, description |-> description, status |-> TODO,
     createdAt |-> ts, updatedAt |-> ts]

\* add <description...>
cmd_add(args) ==
    IF Len(args) < 1 THEN ExitEarly("add", "MissingArgs")
    ELSE LET description == Strip(Join(args)) IN
    IF description = <<>> THEN ExitEarly("add", "EmptyInput")
    ELSE LET ld == load_tasks(db) IN
    IF ~ld.ok THEN ExitLoaded("add", "StorageUnreadable")
    ELSE \E now \in Times :
         LET tasks == ld.tasks
             tid == next_id(tasks)
             task == NewTask(tid, description, now_iso(now))
         IN /\ tid <= MaxId
            /\ out' = Out("add", "ok", tid, <<>>)
            /\ db' = save_tasks(Append(tasks, task))
            /\ assigned' = assigned \cup {tid}
            /\ clock' = now
            /\ UNCHANGED deleted

\* update <id> <new_description...>
cmd_update(args) ==
    IF Len(args) < 2 THEN ExitEarly("update", "MissingArgs")
    ELSE LET task_id == parse_id(args[1]) IN
    IF task_id = 0 THEN ExitEarly("update", "InvalidId")
    ELSE LET new_description == Strip(Join(Tail(args))) IN
    IF new_description = <<>> THEN ExitEarly("update", "EmptyInput")
    ELSE LET ld == load_tasks(db) IN
    IF ~ld.ok THEN ExitLoaded("update", "StorageUnreadable")
    ELSE LET tasks == ld.tasks
             i == find_task(tasks, task_id)
         IN IF i = 0 THEN ExitLoaded("update", "NotFound")
            ELSE \E now \in Times :
                 LET t1 == SetKey(tasks[i], "description", new_description)
                     t2 == SetKey(t1, "updatedAt", now_iso(now))
                 IN /\ out' = Out("update", "ok", task_id, <<>>)
                    /\ db' = save_tasks([tasks EXCEPT ![i] = t2])
                    /\ clock' = now
                    /\ UNCHANGED <<assigned, deleted>>

\* a delete that pops the task at position task_id
WithoutPosition(tasks, task_id) ==
    IF task_id <= Len(tasks)
    THEN SubSeq(tasks, 1, task_id - 1) \o SubSeq(tasks, task_id + 1, Len(tasks))
    ELSE tasks

\* [t for t in tasks if t.get("id") != task_id]
RECURSIVE WithoutId(_, _)
WithoutId(tasks, task_id) ==
    IF tasks = <<>> THEN <<>>
    ELSE LET t == Head(tasks) IN
         IF HasId(t) /\ t.id = task_id THEN WithoutId(Tail(tasks), task_id)
         ELSE <<t>> \o WithoutId(Tail(tasks), task_id)

\* delete <id>
cmd_delete(args) ==
    IF Len(args) # 1 THEN ExitEarly("delete", "MissingArgs")
    ELSE LET task_id == parse_id(args[1]) IN
    IF task_id = 0 THEN ExitEarly("delete", "InvalidId")
    ELSE LET ld == load_tasks(db) IN
    IF ~ld.ok THEN ExitLoaded("delete", "StorageUnreadable")
    ELSE LET before == Len(ld.tasks)
             tasks == WithoutId(ld.tasks, task_id)
             after == Len(tasks)
         IN IF after = before THEN ExitLoaded("delete", "NotFound")
            ELSE /\ out' = Out("delete", "ok", task_id, <<>>)
                 /\ db' = save_tasks(tasks)
                 /\ deleted' = deleted \cup {task_id}
                 /\ UNCHANGED <<clock, assigned>>

\* set_status() that forgets to refresh updatedAt
set_status_no_stamp(task, status, now) == SetKey(task, "status", status)

\* set_status() that stamps both timestamps
set_status_restamps(task, status, now) ==
    SetKey(SetKey(SetKey(task, "status", status), "updatedAt", now_iso(now)),
           "createdAt", now_iso(now))

\* set_status(task, status)
set_status(task, status, now) ==
    SetKey(SetKey(task, "status", status), "updatedAt", now_iso(now))

\* the common body of cmd_mark_in_progress and cmd_mark_done
MarkBody(cmd, status, args) ==
    IF Len(args) # 1 THEN ExitEarly(cmd, "MissingArgs")
    ELSE LET task_id == parse_id(args[1]) IN
    IF task_id = 0 THEN ExitEarly(cmd, "InvalidId")
    ELSE LET ld == load_tasks(db) IN
    IF ~ld.ok THEN ExitLoaded(cmd, "StorageUnreadable")
    ELSE LET tasks == ld.tasks
             i == find_task(tasks, task_id)
         IN IF i = 0 THEN ExitLoaded(cmd, "NotFound")
            ELSE \E now \in Times :
                 /\ out' = Out(cmd, "ok", task_id, <<>>)
                 /\ db' = save_tasks([tasks EXCEPT ![i] = set_status(tasks[i], status, now)])
                 /\ clock' = now
                 /\ UNCHANGED <<assigned, deleted>>

\* mark-in-progress that was copied from mark-done and still sets done
cmd_mark_in_progress_sets_done(args) == MarkBody("mark-in-progress", DONE, args)

\* mark-in-progress <id>
cmd_mark_in_progress(args) == MarkBody("mark-in-progress", IN_PROGRESS, args)

\* mark-done that stores the status as the user reads it, "Done"
cmd_mark_done_capitalised(args) == MarkBody("mark-done", <<"D", "o", "n", "e">>, args)

\* mark-done <id>
cmd_mark_done(args) == MarkBody("mark-done", DONE, args)

\* the sort key of cmd_list for a task without an id
NoIdKey == 1000000000

\* lambda x: x.get("id", 10**9)
SortKey(t) == IF HasId(t) THEN t.id ELSE NoIdKey

\* one step of a stable insertion: t goes after every element whose key is <= its own
RECURSIVE InsertSorted(_, _)
InsertSorted(sorted, t) ==
    IF sorted = <<>> THEN <<t>>
    ELSE IF SortKey(Head(sorted)) <= SortKey(t)
         THEN <<Head(sorted)>> \o InsertSorted(Tail(sorted), t)
         ELSE <<t>> \o sorted

\* a listing that is not sorted
Unsorted(tasks) == tasks

\* sorted(tasks, key=...): a stable sort
RECURSIVE SortedById(_)
SortedById(tasks) ==
    IF tasks = <<>> THEN <<>>
    ELSE InsertSorted(SortedById(SubSeq(tasks, 1, Len(tasks) - 1)), tasks[Len(tasks)])

\* [t for t in tasks if t.get("status") == status_filter]
RECURSIVE WithStatus(_, _)
WithStatus(tasks, status_filter) ==
    IF tasks = <<>> THEN <<>>
    ELSE LET t == Head(tasks) IN
         IF "status" \in DOMAIN t /\ t.status = status_filter
         THEN <<t>> \o WithStatus(Tail(tasks), status_filter)
         ELSE WithStatus(Tail(tasks), status_filter)

\* list [status]
cmd_list(args) ==
    LET ld == load_tasks(db) IN
    IF ~ld.ok THEN ExitLoaded("list", "StorageUnreadable")
    ELSE IF Len(args) > 1 THEN ExitLoaded("list", "MissingArgs")
    ELSE IF Len(args) = 1 /\ Lower(Strip(args[1])) \notin VALID_STATUSES
         THEN ExitLoaded("list", "InvalidFilter")
    ELSE LET tasks == IF Len(args) = 1
                      THEN WithStatus(ld.tasks, Lower(Strip(args[1])))
                      ELSE ld.tasks
         IN /\ out' = Out("list", "ok", 0, SortedById(tasks))
            /\ db' = ensure_db_exists(db)
            /\ UNCHANGED <<clock, assigned, deleted>>

(* ---------------------------- specification ---------------------------- *)

\* first run: no document, nothing printed yet
Init ==
    /\ db = NoDoc
    /\ clock = 0
    /\ out = Out("none", "ok", 0, <<>>)
    /\ assigned = {}
    /\ deleted = {}
    /\ inv = [p \in Procs |-> Idle]

Add(argLists) == (\E args \in argLists : cmd_add(args)) /\ UNCHANGED inv

Update(argLists) == (\E args \in argLists : cmd_update(args)) /\ UNCHANGED inv

Delete(argLists) == (\E args \in argLists : cmd_delete(args)) /\ UNCHANGED inv

MarkInProgress(argLists) == (\E args \in argLists : cmd_mark_in_progress(args)) /\ UNCHANGED inv

MarkDone(argLists) == (\E args \in argLists : cmd_mark_done(args)) /\ UNCHANGED inv

List(argLists) == (\E args \in argLists : cmd_list(args)) /\ UNCHANGED inv

\* the store has room for another task of the session
HasRoom == Len(load_tasks(db).tasks) < MaxLen

\* the commands of a session: one spelling of each kind of input
Next ==
    \/ HasRoom /\ Add(SomeAddArgs)
    \/ Update(SomeUpdateArgs)
    \/ Delete(SomeIdArgs)
    \/ MarkInProgress(SomeIdArgs)
    \/ MarkDone(SomeIdArgs)
    \/ List(SomeListArgs)

Spec == Init /\ [][Next]_vars

(* ------------------- any stored collection, one command ---------------- *)

\* well-formed tasks a document may hold
AnyTasks ==
    { [id |-> i, description |-> <<"a">>, status |-> st, createdAt |-> 0, updatedAt |-> 0] :
        i \in 1..MaxId, st \in VALID_STATUSES }

\* documents in any order of ids (storage is not required to be sorted), ids unique
AnyCollections ==
    UNION { { c \in [1..n -> AnyTasks] : \A i, j \in 1..n : i # j => c[i].id # c[j].id } :
            n \in 0..MaxId }

InitAny ==
    /\ db \in { ListDoc(c) : c \in AnyCollections }
    /\ clock = 0
    /\ out = Out("none", "ok", 0, <<>>)
    /\ assigned = { db.items[i].id : i \in 1..Len(db.items) }
    /\ deleted = {}
    /\ inv = [p \in Procs |-> Idle]

\* exactly one command is run on the document
First(A) == out.cmd = "none" /\ A

NextOnce ==
    \/ First(Add(DescArgs))
    \/ First(Update(UpdateArgs))
    \/ First(Delete(IdArgs))
    \/ First(MarkInProgress(IdArgs))
    \/ First(MarkDone(IdArgs))
    \/ First(List(ListArgs))

SpecAny == InitAny /\ [][NextOnce]_vars

(* ------------------- any document on disk, one command ----------------- *)

\* what json.load may find in the list: tasks, a dict without an id, and a
\* value that is not a dict (a number, a string, null, a nested list)
DocElems ==
    { [id |-> i, description |-> <<"a">>, status |-> TODO, createdAt |-> 0, updatedAt |-> 0] :
        i \in 1..MaxId }
    \cup { [description |-> <<"a">>], [nondict |-> TRUE] }

\* lists of such elements; the ids that occur are unique
AnyLists ==
    UNION { { c \in [1..n -> DocElems] :
                \A i, j \in 1..n : (i # j /\ HasId(c[i]) /\ HasId(c[j])) => c[i].id # c[j].id } :
            n \in 0..MaxId }

\* documents load_tasks() rejects: text that is not JSON, JSON that is not a list
UnreadableDocs ==
    { [kind |-> "invalid-json", items |-> <<>>], [kind |-> "not-a-list", items |-> <<>>] }

InitDoc ==
    /\ db \in { ListDoc(c) : c \in AnyLists } \cup UnreadableDocs \cup { NoDoc }
    /\ clock = 0
    /\ out = Out("none", "ok", 0, <<>>)
    /\ assigned = { db.items[i].id : i \in { k \in 1..Len(db.items) : HasId(db.items[k]) } }
    /\ deleted = {}
    /\ inv = [p \in Procs |-> Idle]

SpecDoc == InitDoc /\ [][NextOnce]_vars

(* ------------------- save_tasks(load_tasks()) on any document ---------- *)

\* the document is loaded and written back with no change in between
Resave ==
    /\ UNCHANGED inv
    /\ LET ld == load_tasks(db) IN
       IF ~ld.ok THEN ExitLoaded("resave", "StorageUnreadable")
       ELSE /\ out' = Out("resave", "ok", 0, <<>>)
            /\ db' = save_tasks(ld.tasks)
            /\ UNCHANGED <<clock, assigned, deleted>>

NextResave == First(Resave)

SpecRoundTrip == InitDoc /\ [][NextResave]_vars

(* ------------------- two invocations at the same time ------------------ *)

\* an invocation between its load_tasks() and its save_tasks(): the command,
\* the id it works on, and the list it is going to save
Loaded(cmd, id, pending) ==
    [pc |-> "loaded", cmd |-> cmd, id |-> id, res |-> "ok", pending |-> pending]

\* an invocation that has exited: what it reported
Exited(cmd, id, res) ==
    [pc |-> "done", cmd |-> cmd, id |-> id, res |-> res, pending |-> <<>>]

\* add, up to save_tasks(): the document is read, and the new list is built
\* in memory with the time read right after the load
ConcAdd(p) ==
    /\ inv[p].pc # "loaded"
    /\ LET tasks == load_tasks(db).tasks
           tid == next_id(tasks)
           description == Strip(Join(<< <<" ", "a", " ">> >>))
       IN /\ Len(tasks) < MaxLen
          /\ tid <= MaxId
          /\ \E now \in Times :
                /\ inv' = [inv EXCEPT ![p] =
                              Loaded("add", tid,
                                     Append(tasks, NewTask(tid, description, now_iso(now))))]
                /\ clock' = now
    /\ db' = ensure_db_exists(db)
    /\ UNCHANGED <<out, assigned, deleted>>

\* delete, up to save_tasks(), or to its exit when the id is not found
ConcDelete(p) ==
    /\ inv[p].pc # "loaded"
    /\ \E n \in 1..MaxId :
          LET task_id == parse_id(<<DigitOf(n)>>)
              before == load_tasks(db).tasks
              tasks == WithoutId(before, task_id)
          IN inv' = [inv EXCEPT ![p] =
                        IF Len(tasks) = Len(before)
                        THEN Exited("delete", 0, "NotFound")
                        ELSE Loaded("delete", task_id, tasks)]
    /\ db' = ensure_db_exists(db)
    /\ UNCHANGED <<clock, out, assigned, deleted>>

\* mark-done, up to save_tasks(), or to its exit when the id is not found
ConcMarkDone(p) ==
    /\ inv[p].pc # "loaded"
    /\ \E n \in 1..MaxId :
          LET task_id == parse_id(<<DigitOf(n)>>)
              tasks == load_tasks(db).tasks
              i == find_task(tasks, task_id)
          IN IF i = 0
             THEN /\ inv' = [inv EXCEPT ![p] = Exited("mark-done", 0, "NotFound")]
                  /\ UNCHANGED clock
             ELSE \E now \in Times :
                  /\ inv' = [inv EXCEPT ![p] =
                                Loaded("mark-done", task_id,
                                       [tasks EXCEPT ![i] = set_status(tasks[i], DONE, now)])]
                  /\ clock' = now
    /\ db' = ensure_db_exists(db)
    /\ UNCHANGED <<out, assigned, deleted>>

\* a save that keeps the records another invocation has stored meanwhile
ConcSaveMerged(p) ==
    /\ inv[p].pc = "loaded"
    /\ LET mine == inv[p].pending
           theirs == SelectSeq(load_tasks(db).tasks,
                               LAMBDA t : \A i \in 1..Len(mine) : mine[i].id # t.id)
       IN db' = save_tasks(mine \o theirs)
    /\ inv' = [inv EXCEPT ![p] = Exited(inv[p].cmd, inv[p].id, "ok")]
    /\ assigned' = IF inv[p].cmd = "add" THEN assigned \cup {inv[p].id} ELSE assigned
    /\ deleted' = IF inv[p].cmd = "delete" THEN deleted \cup {inv[p].id} ELSE deleted
    /\ UNCHANGED <<clock, out>>

\* save_tasks() of the list built in memory, and the report of success
ConcSave(p) ==
    /\ inv[p].pc = "loaded"
    /\ db' = save_tasks(inv[p].pending)
    /\ inv' = [inv EXCEPT ![p] = Exited(inv[p].cmd, inv[p].id, "ok")]
    /\ assigned' = IF inv[p].cmd = "add" THEN assigned \cup {inv[p].id} ELSE assigned
    /\ deleted' = IF inv[p].cmd = "delete" THEN deleted \cup {inv[p].id} ELSE deleted
    /\ UNCHANGED <<clock, out>>

\* the steps of the invocations interleave freely: there is no lock
NextConc ==
    \E p \in Procs :
        \/ ConcAdd(p)
        \/ ConcDelete(p)
        \/ ConcMarkDone(p)
        \/ ConcSave(p)

SpecConc == Init /\ [][NextConc]_vars

(* ---------------------------- properties ------------------------------- *)

\* the task list a document holds (empty when there is no document yet)
Stored(d) == IF d.kind = "list" THEN d.items ELSE <<>>

IdsOf(tasks) == { tasks[i].id : i \in 1..Len(tasks) }

MaxOf(S) == IF S = {} THEN 0 ELSE CHOOSE m \in S : \A x \in S : x <= m

\* the positions of the tasks with this id
PosOf(tasks, id) == { i \in 1..Len(tasks) : tasks[i].id = id }

\* tasks without its i-th element
RemoveAt(tasks, i) == SubSeq(tasks, 1, i - 1) \o SubSeq(tasks, i + 1, Len(tasks))

\* the step is a successful run of cmd
Ran(cmd) == out'.cmd = cmd /\ out'.res = "ok"

\* d is s without its leading and trailing whitespace
IsTrimOf(d, s) ==
    /\ d # <<>> => ~IsSpace(d[1]) /\ ~IsSpace(d[Len(d)])
    /\ \E i \in 1..(Len(s) + 1), j \in 0..Len(s) :
          /\ d = SubSeq(s, i, j)
          /\ \A k \in 1..Len(s) : (k < i \/ k > j) => IsSpace(s[k])

\* the two records agree on every field but the ones in keys
SameBut(t, u, keys) ==
    /\ DOMAIN t = DOMAIN u
    /\ \A k \in DOMAIN t \ keys : t[k] = u[k]

\* C1: every id a successful add reports is greater than every id reported
\* before, so no id is assigned twice, not even the id of a deleted task.
C1_IdsNeverReused ==
    [][Ran("add") => \A a \in assigned : out'.id > a]_vars

\* C2: a successful add reports 1 + the largest id of the stored collection
\* (0 for none) and gives the new record that id, whatever was run before.
C2_NextIdIsMaxPlusOne ==
    [][Ran("add") =>
          /\ out'.id = 1 + MaxOf(IdsOf(Stored(db)))
          /\ db'.items[Len(db'.items)].id = out'.id]_vars

\* an add has run on a collection whose largest id was not stored last
C2_Witness ==
    /\ out.cmd = "add" /\ out.res = "ok" /\ out.id = 3
    /\ Len(db.items) = 3 /\ db.items[1].id = 2 /\ db.items[2].id = 1

\* C3: a successful add appends exactly one record, whose description is the
\* trimmed input, whose status is todo and whose createdAt equals updatedAt;
\* the records already stored keep their content and position.
C3_AddAppendsOne ==
    [][Ran("add") => \A args \in DescArgs :
          cmd_add(args) =>
             LET old == Stored(db)
                 new == db'.items
                 r == new[Len(new)]
             IN /\ Len(new) = Len(old) + 1
                /\ SubSeq(new, 1, Len(old)) = old
                /\ IsTrimOf(r.description, Join(args))
                /\ r.description # <<>>
                /\ r.status = TODO
                /\ r.createdAt = r.updatedAt]_vars

\* an add of the padded description " a " has run on a collection of two tasks
C3_Witness ==
    /\ out.cmd = "add" /\ out.res = "ok"
    /\ Len(db.items) = 3
    /\ db.items[3].description = <<"a">>
    /\ db.items[1].status # TODO

\* C4: a successful update replaces the description of the record with that
\* id by the trimmed new description and sets its updatedAt to the current
\* time; its other fields, the other records, their number and order stay.
C4_UpdateFrame ==
    [][Ran("update") =>
          \A tok \in { t \in IdTokens : parse_id(t) = out'.id }, d \in DescArgs :
          cmd_update(<<tok>> \o d) =>
             LET old == Stored(db)
                 new == db'.items
             IN /\ Len(new) = Len(old)
                /\ \E i \in PosOf(old, out'.id) :
                      /\ \A j \in 1..Len(old) : j # i => new[j] = old[j]
                      /\ SameBut(new[i], old[i], {"description", "updatedAt"})
                      /\ IsTrimOf(new[i].description, Join(d))
                      /\ new[i].updatedAt = clock' \div SubSec]_vars

\* an update has run on the second of three records, one that was not todo
C4_Witness ==
    /\ out.cmd = "update" /\ out.res = "ok"
    /\ Len(db.items) = 3
    /\ db.items[2].id = out.id
    /\ db.items[2].description = <<"b", " ", "c">>
    /\ db.items[2].status = DONE
    /\ db.items[2].updatedAt > db.items[2].createdAt

\* C5 as stated: after a successful update the record's updatedAt is strictly
\* greater than it was before.
C5_UpdatedAtStrictlyGreater ==
    [][Ran("update") =>
          \E i \in PosOf(Stored(db), out'.id) :
              db'.items[i].updatedAt > db.items[i].updatedAt]_vars

\* C5 amended: after a successful update the record's updatedAt is the clock
\* reading cut to whole seconds, which is never earlier than the value it had;
\* it is equal when both changes fall into the same second.
C5_UpdatedAtNotEarlier ==
    [][Ran("update") =>
          \E i \in PosOf(Stored(db), out'.id) :
              /\ db'.items[i].updatedAt = clock' \div SubSec
              /\ db'.items[i].updatedAt >= db.items[i].updatedAt]_vars

\* an update has run within the second in which its task was created
C5_Witness ==
    /\ out.cmd = "update" /\ out.res = "ok"
    /\ clock % SubSec # 0
    /\ \E i \in 1..Len(db.items) :
          /\ db.items[i].id = out.id
          /\ db.items[i].updatedAt = db.items[i].createdAt
          /\ db.items[i].updatedAt = clock \div SubSec

\* C6: once delete(id) has succeeded, no later update, delete, mark-in-progress
\* or mark-done of that id succeeds: each ends with "not found".
C6_DeletedStaysGone ==
    [][(/\ out'.cmd \in {"update", "delete", "mark-in-progress", "mark-done"}
        /\ out'.id \in deleted)
       => out'.res = "NotFound"]_vars

\* C7: a successful delete removes exactly the record whose id is the argument;
\* the other records keep their content and relative order.
C7_DeleteFrame ==
    [][Ran("delete") =>
          LET old == Stored(db)
              new == db'.items
          IN /\ Len(new) = Len(old) - 1
             /\ \E i \in 1..Len(old) :
                   /\ old[i].id = out'.id
                   /\ new = RemoveAt(old, i)]_vars

\* a delete has removed a record from between two others stored out of id order
C7_Witness ==
    /\ out.cmd = "delete" /\ out.res = "ok" /\ out.id = 2
    /\ Len(db.items) = 2
    /\ db.items[1].id = 3 /\ db.items[2].id = 1

\* C8: a successful mark-in-progress or mark-done sets the status of the record
\* with that id to in-progress or done and its updatedAt to the current time;
\* its other fields, the other records, their number and order stay.
C8_MarkFrame ==
    [][\A c \in {"mark-in-progress", "mark-done"} :
          Ran(c) =>
             LET old == Stored(db)
                 new == db'.items
             IN /\ Len(new) = Len(old)
                /\ \E i \in PosOf(old, out'.id) :
                      /\ \A j \in 1..Len(old) : j # i => new[j] = old[j]
                      /\ SameBut(new[i], old[i], {"status", "updatedAt"})
                      /\ new[i].status = (IF c = "mark-done" THEN DONE ELSE IN_PROGRESS)
                      /\ new[i].updatedAt = clock' \div SubSec]_vars

\* a mark has run on the second of three records at a later second
C8_Witness ==
    /\ out.cmd = "mark-in-progress" /\ out.res = "ok"
    /\ Len(db.items) = 3
    /\ db.items[2].id = out.id
    /\ db.items[2].status = IN_PROGRESS
    /\ db.items[2].updatedAt > db.items[2].createdAt
    /\ db.items[3].status = DONE

\* a status-setting command can move the task with this id to the status st
MovesTo(id, st) ==
    /\ MarkInProgress(IdArgs) \/ MarkDone(IdArgs)
    /\ out'.res = "ok" /\ out'.id = id
    /\ \E i \in PosOf(db'.items, id) : db'.items[i].status = st

\* an update of the task with this id can succeed
CanUpdate(id) == Update(UpdateArgs) /\ out'.res = "ok" /\ out'.id = id

\* C9 as stated: a task in any status can be moved to any of the three statuses
\* by a status-setting command.
C9_AnyToAny ==
    \A i \in 1..Len(Stored(db)) : \A st \in VALID_STATUSES :
        ENABLED MovesTo(db.items[i].id, st)

\* the text has a character that is not whitespace
NotBlank(text) == \E k \in 1..Len(text) : ~IsSpace(text[k])

\* C9 amended: mark-in-progress and mark-done succeed on every stored task,
\* whatever its status (done and the target status included), and leave it
\* in-progress and done; an update with a description succeeds on every stored
\* task, done ones included; no command moves a stored task to todo.
C9_AnyToMarked ==
    [][LET old == Stored(db)
           new == db'.items
           Failed(cmd) == out'.cmd = cmd /\ out'.res # "ok"
           StoredToks == { tok \in IdTokens : parse_id(tok) \in IdsOf(old) }
       IN /\ Ran("mark-in-progress") =>
               \E i \in PosOf(old, out'.id) : new[i].status = IN_PROGRESS
          /\ Ran("mark-done") =>
               \E i \in PosOf(old, out'.id) : new[i].status = DONE
          /\ Failed("mark-in-progress") =>
               \A tok \in StoredToks : ~cmd_mark_in_progress(<<tok>>)
          /\ Failed("mark-done") =>
               \A tok \in StoredToks : ~cmd_mark_done(<<tok>>)
          /\ Failed("update") =>
               \A tok \in StoredToks, d \in DescArgs :
                  NotBlank(Join(d)) => ~cmd_update(<<tok>> \o d)
          /\ db' # db =>
               \A i \in 1..Len(old), j \in 1..Len(new) :
                  (old[i].id = new[j].id /\ new[j].status = TODO) =>
                     old[i].status = TODO]_vars

\* a task was marked done and can still be updated and moved on
C9_Witness ==
    /\ out.cmd = "mark-done" /\ out.res = "ok"
    /\ \E i \in PosOf(db.items, out.id) : db.items[i].status = DONE
    /\ ENABLED MovesTo(out.id, IN_PROGRESS)
    /\ ENABLED MovesTo(out.id, DONE)
    /\ ENABLED CanUpdate(out.id)

\* listing holds each of the expected tasks once, in ascending order of id
IsListingOf(listing, expected) ==
    /\ \A i \in 1..(Len(listing) - 1) : listing[i].id < listing[i + 1].id
    /\ { listing[i] : i \in 1..Len(listing) } = expected
    /\ Len(listing) = Cardinality(expected)

\* C10: list with a status prints exactly the stored records of that status,
\* each once, in ascending order of id; list without a status prints every
\* record in ascending order of id; it succeeds also when it prints nothing.
C10_ListFiltersAndSorts ==
    [][out'.cmd = "list" =>
       LET tasks == Stored(db)
           all == { tasks[i] : i \in 1..Len(tasks) }
       IN /\ \A f \in VALID_STATUSES :
                cmd_list(<<f>>) =>
                   /\ out'.res = "ok" /\ out'.exit = 0
                   /\ IsListingOf(out'.listing, { t \in all : t.status = f })
          /\ cmd_list(<<>>) =>
                /\ out'.res = "ok" /\ out'.exit = 0
                /\ IsListingOf(out'.listing, all)]_vars

\* a filtered list has printed two of three records in another order than stored
C10_Witness ==
    /\ out.cmd = "list" /\ out.res = "ok"
    /\ Len(db.items) = 3 /\ Len(out.listing) = 2
    /\ out.listing[1] = db.items[3]
    /\ out.listing[2] = db.items[1]

\* C11: a command that ends with EmptyInput, InvalidId, NotFound or
\* InvalidFilter leaves the stored collection, non-dict elements included,
\* exactly as it was (a missing document becomes the empty list it stood for);
\* the document is written only by a command that succeeds.
C11_FailureLeavesStore ==
    [][/\ out'.res \in {"EmptyInput", "InvalidId", "NotFound", "InvalidFilter"} =>
             /\ Stored(db') = Stored(db)
             /\ db' = db \/ (db = NoDoc /\ db' = ListDoc(<<>>))
       /\ Stored(db') # Stored(db) => out'.res = "ok"]_vars

\* a delete of an id that is not stored has failed on a list that holds a
\* value that is not a dict, and the value is still there
C11_Witness ==
    /\ out.cmd = "delete" /\ out.res = "NotFound" /\ out.exit = 1
    /\ Len(db.items) = 3
    /\ ~IsDict(db.items[2])

\* the token is the decimal numeral of the positive integer n
IsNumeral(tok, n) == n \in 1..MaxId /\ tok = <<DigitOf(n)>>

\* the document holds a task with the id the token writes
TokenIsStored(tok) ==
    \E i \in 1..Len(Stored(db)) :
        /\ IsDict(db.items[i]) /\ HasId(db.items[i])
        /\ IsNumeral(tok, db.items[i].id)

\* the outcome the id token and the description of a command call for
ExpectedKind(tok, blank) ==
    IF \A n \in 1..MaxId : ~IsNumeral(tok, n) THEN "InvalidId"
    ELSE IF blank THEN "EmptyInput"
    ELSE IF ~TokenIsStored(tok) THEN "NotFound"
    ELSE "ok"

\* the two characters are the same letter in upper or lower case
SameLetter(a, b) ==
    \/ a = b
    \/ <<a, b>> \in { <<"D", "d">>, <<"O", "o">>, <<"N", "n">>, <<"E", "e">>, <<"T", "t">> }

\* the filter is one of the three statuses, in any case, with whitespace around it
NamesStatus(f) ==
    \E st \in VALID_STATUSES, i \in 1..(Len(f) + 1), j \in 0..Len(f) :
        /\ \A k \in 1..Len(f) : (k < i \/ k > j) => IsSpace(f[k])
        /\ j - i + 1 = Len(st)
        /\ \A k \in 1..Len(st) : SameLetter(f[i + k - 1], st[k])

\* C12: on a readable store, and for argument lists of the command's shape:
\* add fails with EmptyInput exactly when its description is blank; update
\* fails with InvalidId when the id token is not a positive integer (0 and -1
\* included), otherwise with EmptyInput when the description is blank,
\* otherwise with NotFound when no task has the id, and otherwise succeeds;
\* delete and the marks fail with InvalidId or NotFound in the same way; list
\* fails with InvalidFilter exactly when its filter names none of the statuses.
C12_FailureKinds ==
    [][db.kind \in {"list", "absent"} =>
       /\ out'.cmd = "add" =>
             \A args \in DescArgs : (Len(args) >= 1 /\ cmd_add(args)) =>
                out'.res = (IF NotBlank(Join(args)) THEN "ok" ELSE "EmptyInput")
       /\ out'.cmd = "update" =>
             \A args \in UpdateArgs : (Len(args) >= 2 /\ cmd_update(args)) =>
                out'.res = ExpectedKind(args[1], ~NotBlank(Join(Tail(args))))
       /\ out'.cmd = "delete" =>
             \A tok \in IdTokens : cmd_delete(<<tok>>) =>
                out'.res = ExpectedKind(tok, FALSE)
       /\ out'.cmd = "mark-in-progress" =>
             \A tok \in IdTokens : cmd_mark_in_progress(<<tok>>) =>
                out'.res = ExpectedKind(tok, FALSE)
       /\ out'.cmd = "mark-done" =>
             \A tok \in IdTokens : cmd_mark_done(<<tok>>) =>
                out'.res = ExpectedKind(tok, FALSE)
       /\ out'.cmd = "list" =>
             \A args \in ListArgs : (Len(args) = 1 /\ cmd_list(args)) =>
                out'.res = (IF NamesStatus(args[1]) THEN "ok" ELSE "InvalidFilter")
       /\ out'.cmd = "list" /\ cmd_list(<<>>) => out'.res = "ok"]_vars

\* an update with a blank description has failed with EmptyInput although the
\* store holds no task it could have named
C12_Witness ==
    /\ out.cmd = "update" /\ out.res = "EmptyInput" /\ out.exit = 1
    /\ db = ListDoc(<<>>)

\* C13 as stated: for every document load_tasks accepts, saving what was
\* loaded leaves the document with the same elements in the same order.
C13_RoundTripAll ==
    [][Ran("resave") => db'.kind = "list" /\ db'.items = Stored(db)]_vars

\* C13 amended: saving what was loaded writes the elements of the document
\* that are dicts, with the fields they had and in the order they had; the
\* document is unchanged exactly when every element of it is a dict.
C13_RoundTripOfDicts ==
    [][Ran("resave") =>
          /\ db'.kind = "list"
          /\ db'.items = SelectSeq(Stored(db), IsDict)
          /\ (db'.items = Stored(db)) <=>
                (\A i \in 1..Len(Stored(db)) : IsDict(db.items[i]))]_vars

\* a list of three dicts, stored out of id order and one of them without an
\* id, has been loaded and written back
C13_Witness ==
    /\ out.cmd = "resave" /\ out.res = "ok"
    /\ Len(db.items) = 3
    /\ HasId(db.items[1]) /\ db.items[1].id = 3
    /\ IsDict(db.items[2]) /\ ~HasId(db.items[2])
    /\ HasId(db.items[3]) /\ db.items[3].id = 1

\* C14: in every state a session of commands reaches from the empty store,
\* every stored record has an id that is a positive integer, and no two stored
\* records have the same id.
C14_IdsPositiveAndUnique ==
    LET tasks == Stored(db) IN
    /\ \A i \in 1..Len(tasks) :
          IsDict(tasks[i]) /\ HasId(tasks[i]) /\ tasks[i].id \in Nat /\ tasks[i].id >= 1
    /\ \A i, j \in 1..Len(tasks) : i # j => tasks[i].id # tasks[j].id

\* two records are stored after the first one added was deleted and another
\* one was added
C14_Witness ==
    /\ 1 \in deleted
    /\ Len(Stored(db)) = 2
    /\ db.items[1].id = 2 /\ db.items[2].id = 3
    /\ out.cmd = "add" /\ out.res = "ok" /\ out.id = 3

\* C15: in every state a session of commands reaches from the empty store, the
\* status of every stored record is one of the strings "todo", "in-progress"
\* and "done".
C15_StatusIsOneOfThree ==
    \A i \in 1..Len(Stored(db)) :
        /\ "status" \in DOMAIN db.items[i]
        /\ db.items[i].status \in
              { <<"t", "o", "d", "o">>,
                <<"i", "n", "-", "p", "r", "o", "g", "r", "e", "s", "s">>,
                <<"d", "o", "n", "e">> }

\* after marks on both, one stored record is done and the other is in progress
C15_Witness ==
    /\ out.cmd = "mark-done" /\ out.res = "ok" /\ out.id = 1
    /\ Len(Stored(db)) = 2
    /\ db.items[1].status = DONE
    /\ db.items[2].status = IN_PROGRESS

Count(seq, e) == Cardinality({ i \in 1..Len(seq) : seq[i] = e })

\* C17: when the document is a list, no command fails over an element that is
\* not a dict; an unfiltered list prints exactly the elements that are dicts;
\* a command that succeeds in changing the store writes those elements in
\* their order with its own change: add appends one record, update and the
\* marks change at most one record, delete removes one record; a command
\* that fails writes nothing.
C17_LoadKeepsDicts ==
    [][db.kind = "list" =>
       LET kept == SelectSeq(db.items, IsDict)
           new == db'.items
           printed == out'.listing
       IN /\ out'.res # "StorageUnreadable"
          /\ db'.kind = "list"
          /\ (Ran("list") /\ cmd_list(<<>>)) =>
                /\ Len(printed) = Len(kept)
                /\ \A i \in 1..Len(kept) : Count(printed, kept[i]) = Count(kept, kept[i])
                /\ new = db.items
          /\ Ran("add") =>
                /\ Len(new) = Len(kept) + 1
                /\ SubSeq(new, 1, Len(kept)) = kept
          /\ (Ran("update") \/ Ran("mark-in-progress") \/ Ran("mark-done")) =>
                /\ Len(new) = Len(kept)
                /\ Cardinality({ i \in 1..Len(kept) : new[i] # kept[i] }) <= 1
          /\ Ran("delete") =>
                /\ Len(new) = Len(kept) - 1
                /\ \E i \in 1..Len(kept) : new = RemoveAt(kept, i)
          /\ out'.res # "ok" => new = db.items]_vars

\* list has printed the two dicts of a list of three elements, one of them
\* without an id, and left the element that is not a dict in the document
C17_Witness ==
    /\ out.cmd = "list" /\ out.res = "ok"
    /\ Len(db.items) = 3
    /\ IsDict(db.items[1]) /\ ~HasId(db.items[1])
    /\ ~IsDict(db.items[2])
    /\ IsDict(db.items[3]) /\ HasId(db.items[3])
    /\ out.listing = <<db.items[3], db.items[1]>>

\* the id token writes a positive integer of the model
IsIdNumeral(tok) == \E n \in 1..MaxId : IsNumeral(tok, n)

\* C18: when the document is not JSON or is not a JSON list, every command
\* ends with a non-zero exit and leaves the document as it is; a command that
\* gets as far as loading the store (list always, the others once their
\* arguments are accepted) ends with the fatal error of load_tasks.
C18_UnreadableIsFatal ==
    [][db.kind \notin {"list", "absent"} =>
       /\ db' = db
       /\ out'.exit # 0
       /\ out'.res # "ok"
       /\ out'.cmd = "list" => out'.res = "StorageUnreadable"
       /\ out'.cmd = "add" =>
             \A args \in DescArgs : (NotBlank(Join(args)) /\ cmd_add(args)) =>
                out'.res = "StorageUnreadable"
       /\ out'.cmd = "update" =>
             \A args \in UpdateArgs :
                (/\ Len(args) >= 2 /\ IsIdNumeral(args[1]) /\ NotBlank(Join(Tail(args)))
                 /\ cmd_update(args)) =>
                out'.res = "StorageUnreadable"
       /\ out'.cmd = "delete" =>
             \A tok \in IdTokens : (IsIdNumeral(tok) /\ cmd_delete(<<tok>>)) =>
                out'.res = "StorageUnreadable"
       /\ out'.cmd = "mark-in-progress" =>
             \A tok \in IdTokens : (IsIdNumeral(tok) /\ cmd_mark_in_progress(<<tok>>)) =>
                out'.res = "StorageUnreadable"
       /\ out'.cmd = "mark-done" =>
             \A tok \in IdTokens : (IsIdNumeral(tok) /\ cmd_mark_done(<<tok>>)) =>
                out'.res = "StorageUnreadable"]_vars

\* an add has ended with the fatal error on a document that is JSON but not a
\* list, and the document is still there
C18_Witness ==
    /\ out.cmd = "add" /\ out.res = "StorageUnreadable" /\ out.exit = 1
    /\ db.kind = "not-a-list"

\* C19: there is no lock between a load and a save.  Whenever an invocation
\* saves, it reports success and the document becomes exactly the list the
\* invocation built from what it had loaded, whatever another invocation has
\* saved in between: the last save wins.  The witness is the lost update.
C19_LastSaveWins ==
    [][\A p \in Procs :
          (inv[p].pc = "loaded" /\ inv'[p].pc = "done") =>
             /\ inv'[p].res = "ok"
             /\ db' = ListDoc(inv[p].pending)]_vars

\* both invocations have reported success, A for adding task 2 and B for
\* marking task 1 done; nothing was ever deleted, and task 2 is not stored:
\* B had loaded before A saved, and saved after it
C19_Witness ==
    /\ \A p \in Procs : inv[p].pc = "done" /\ inv[p].res = "ok"
    /\ inv["A"].cmd = "add" /\ inv["A"].id = 2
    /\ inv["B"].cmd = "mark-done" /\ inv["B"].id = 1
    /\ deleted = {}
    /\ assigned = {1, 2}
    /\ IdsOf(Stored(db)) = {1}
    /\ db.items[1].status = DONE

\* C20: under every interleaving of the loads and saves of two invocations
\* started from the empty store, no two stored records have the same id, and
\* neither have two records of a list an invocation is about to save.  The
\* witness is two adds that were both told the same id.
C20_StoredIdsUnique ==
    /\ \A i, j \in 1..Len(Stored(db)) : i # j => db.items[i].id # db.items[j].id
    /\ \A p \in Procs : \A i, j \in 1..Len(inv[p].pending) :
          i # j => inv[p].pending[i].id # inv[p].pending[j].id

\* both invocations have reported the success of an add with the same id,
\* nothing was ever deleted, and one record with that id is stored
C20_Witness ==
    /\ \A p \in Procs : inv[p].pc = "done" /\ inv[p].res = "ok" /\ inv[p].cmd = "add"
    /\ inv["A"].id = inv["B"].id
    /\ deleted = {}
    /\ IdsOf(Stored(db)) = {inv["A"].id}

====
